---- MODULE Spec2Model ----
(***************************************************************************)
(* A model of the stock manager backend (src/app.py): one JSON document    *)
(* in DATA_FILE, and request handlers that each load the whole document,   *)
(* change it in memory and save it back.                                   *)
(*                                                                         *)
(* Python values.  A dict is a function from its keys (strings) to values, *)
(* so a key can be absent.  The numeric fields (price, stock, cost,        *)
(* amount, quantity) hold a tagged JSON value: Num(v), a number, counted   *)
(* in halves (Num(25) is 12.5, Num(20) is 10) so that float() and          *)
(* int(float()) differ; Str(s), a text; or Null.  The fields of a product  *)
(* that no handler computes with (category, supplier, min_stock,           *)
(* max_stock, barcode, unit, last_updated) are left out of the dicts.      *)
(***************************************************************************)
EXTENDS Integers, Sequences, FiniteSets, TLC

VARIABLES
    fileExists,   \* whether DATA_FILE exists
    fileData,     \* the document DATA_FILE holds (NoFile while it does not exist)
    resp,         \* the last response: [op, status, body]
    handled,      \* how many requests have been handled
    uuids,        \* how many identities uuid4() has handed out
    created,      \* history: the records the create handlers returned, in order, per collection
    maxDeleted,   \* history: whether a delete_product removed the then-maximal identity
    pc,           \* per concurrent writer: "idle" or "loaded"
    local,        \* per concurrent writer: the document it loaded and changed in memory
    txn,          \* per concurrent writer: the transaction it built
    raced,        \* history: whether a writer loaded while another held a loaded document
    raw,          \* the raw document handed to validate_data on its own
    normalized    \* what validate_data made of it

vars == <<fileExists, fileData, resp, handled, uuids, created, maxDeleted, pc, local, txn,
          raced, raw, normalized>>

----------------------------------------------------------------------------
(* Bounds of the model *)

MaxRequests == 3      \* requests handled in a run of the whole system
MaxCreated == 3       \* records created per collection in a run of creations and deletions
MaxWriterRequests == 1  \* requests each concurrent writer handles

----------------------------------------------------------------------------
(* JSON values and Python's conversions *)

Num(v) == [t |-> "num", v |-> v]
Str(s) == [t |-> "str", s |-> s]
Null == [t |-> "null"]

IsNum(x) == x.t = "num"
IsStr(x) == x.t = "str"

Has(d, k) == k \in DOMAIN d
SetDefault(d, k, v) == IF Has(d, k) THEN d ELSE d @@ (k :> v)
Put(d, k, v) == (k :> v) @@ d
Get(d, k, dflt) == IF Has(d, k) THEN d[k] ELSE dflt
DictUpdate(d, u) == u @@ d

Max(a, b) == IF a >= b THEN a ELSE b

SeqMap(Op(_), s) == [i \in 1..Len(s) |-> Op(s[i])]

(* The texts the model's requests carry, and what Python's float() reads   *)
(* in each (in halves); any other text raises ValueError.                  *)
NumericTexts == {"12.5", "-5", "9"}
ParseFloat(s) == CASE s = "12.5" -> 25
                   [] s = "-5" -> -10
                   [] s = "9" -> 18

(* float(x): [ok, v]; ok is FALSE where Python raises ValueError (a text   *)
(* that is no number) or TypeError (None).                                 *)
Float(x) == CASE IsNum(x) -> [ok |-> TRUE, v |-> x.v]
              [] IsStr(x) /\ x.s \in NumericTexts -> [ok |-> TRUE, v |-> ParseFloat(x.s)]
              [] OTHER -> [ok |-> FALSE, v |-> 0]

(* int(v) truncates toward zero; v is in halves *)
IntTrunc(v) == IF v >= 0 THEN (v \div 2) * 2 ELSE -(((-v) \div 2) * 2)

----------------------------------------------------------------------------
(* The seed document, get_default_data.  contact and email of customers    *)
(* and suppliers are left out: nothing reads them.                         *)

Drum250Open == "250ltrs open plastic Drum"
Drum170 == "170lts Drum"

get_default_data ==
    [products |-> <<
        [id |-> 1, name |-> Drum250Open, price |-> Num(5800), stock |-> Num(20), cost |-> Num(4000)],
        [id |-> 2, name |-> "250lts close Drum", price |-> Num(6000), stock |-> Num(16), cost |-> Num(4200)],
        [id |-> 3, name |-> Drum170, price |-> Num(4400), stock |-> Num(30), cost |-> Num(3000)],
        [id |-> 4, name |-> "120lts Plastic Drum", price |-> Num(3000), stock |-> Num(24), cost |-> Num(2000)],
        [id |-> 5, name |-> "80lts Plastic Drum", price |-> Num(2000), stock |-> Num(40), cost |-> Num(1400)] >>,
     transactions |-> <<
        [id |-> 1, date |-> "2024-01-15 10:30:00", type |-> "sale", amount |-> Num(11600),
         customer |-> "John Doe",
         items |-> << [name |-> Drum250Open, quantity |-> Num(4), price |-> Num(5800)] >>],
        [id |-> 2, date |-> "2024-01-16 14:20:00", type |-> "purchase", amount |-> Num(8400),
         supplier |-> "Plastic Works Ltd", description |-> "Restock drums"],
        [id |-> 3, date |-> "2024-01-17 09:15:00", type |-> "sale", amount |-> Num(4400),
         customer |-> "Jane Smith",
         items |-> << [name |-> Drum170, quantity |-> Num(2), price |-> Num(4400)] >>] >>,
     customers |-> << [id |-> 1, name |-> "John Doe", total_spent |-> Num(11600)],
                      [id |-> 2, name |-> "Jane Smith", total_spent |-> Num(4400)] >>,
     suppliers |-> << [id |-> 1, name |-> "Plastic Works Ltd"],
                      [id |-> 2, name |-> "Container Solutions"] >>,
     notes |-> << >>,
     settings |-> [tax_rate |-> Num(32)]]

----------------------------------------------------------------------------
(* validate_data *)

required_keys == {"products", "transactions", "customers", "suppliers", "notes", "settings"}

(* a text price or cost becomes float(text), 0 when float raises; any      *)
(* other value is kept as it is                                            *)
CoercePrice(x) == IF IsStr(x) THEN Num(IF Float(x).ok THEN Float(x).v ELSE 0) ELSE x

(* a text stock becomes int(float(text)), 0 when that raises *)
CoerceStock(x) == IF IsStr(x) THEN Num(IF Float(x).ok THEN IntTrunc(Float(x).v) ELSE 0) ELSE x

validate_product(p) ==
    LET d == SetDefault(SetDefault(SetDefault(p, "price", Num(0)), "stock", Num(0)), "cost", Num(0))
    IN  [d EXCEPT !["price"] = CoercePrice(@),
                  !["stock"] = CoerceStock(@),
                  !["cost"] = CoercePrice(@)]

(* a slip: the amount reset, not only a text amount *)
validate_transaction_reset(t) ==
    LET d == SetDefault(SetDefault(SetDefault(SetDefault(SetDefault(t,
                 "amount", Num(0)), "customer", ""), "supplier", ""), "description", ""),
                 "items", << >>)
    IN  [d EXCEPT !["amount"] = Num(0)]

validate_transaction(t) ==
    LET d == SetDefault(SetDefault(SetDefault(SetDefault(SetDefault(t,
                 "amount", Num(0)), "customer", ""), "supplier", ""), "description", ""),
                 "items", << >>)
    IN  [d EXCEPT !["amount"] = CoercePrice(@)]

validate_data(data) ==
    LET filled == data @@ [k \in required_keys \ DOMAIN data |-> get_default_data[k]]
    IN  [filled EXCEPT !["products"] = SeqMap(validate_product, @),
                       !["transactions"] = SeqMap(validate_transaction, @)]

----------------------------------------------------------------------------
(* The document store: load_data and save_data.  A request sees the seed   *)
(* document, as it is, while the file does not exist.                      *)

(* a slip: the seed document whatever the file holds *)
load_data_seed == get_default_data

load_data == IF fileExists THEN validate_data(fileData) ELSE get_default_data

save_data(data) == fileExists' = TRUE /\ fileData' = data

Respond(op, status, body) == resp' = [op |-> op, status |-> status, body |-> body]

Ids(coll) == {coll[i]["id"] : i \in 1..Len(coll)}

SetMax(S) == CHOOSE m \in S : \A x \in S : x <= m

(* a slip: the next identity taken from the collection's length *)
NextIdByCount(coll) == Len(coll) + 1

(* max([x['id'] for x in coll], default=0) + 1 *)
NextId(coll) == (IF Ids(coll) = {} THEN 0 ELSE SetMax(Ids(coll))) + 1

----------------------------------------------------------------------------
(* Products API.  Each handler is one step: requests run one at a time.    *)

Unchanged == UNCHANGED <<fileExists, fileData>>

get_products ==
    /\ Respond("get_products", 200, load_data["products"])
    /\ Unchanged /\ UNCHANGED uuids

(* price = float(price), stock = int(float(stock)), cost = float(cost);    *)
(* when any of the three raises ValueError or TypeError all three are 0    *)
coerce_new_product(product) ==
    LET d == SetDefault(SetDefault(SetDefault(product, "price", Num(0)), "stock", Num(0)),
                        "cost", Num(0))
        fp == Float(d["price"])
        fs == Float(d["stock"])
        fc == Float(d["cost"])
    IN  IF fp.ok /\ fs.ok /\ fc.ok
        THEN [d EXCEPT !["price"] = Num(fp.v), !["stock"] = Num(IntTrunc(fs.v)),
                       !["cost"] = Num(fc.v)]
        ELSE [d EXCEPT !["price"] = Num(0), !["stock"] = Num(0), !["cost"] = Num(0)]

add_product(payload) ==
    LET data == load_data
        product == Put(coerce_new_product(payload), "id", NextId(data["products"]))
    IN  /\ save_data([data EXCEPT !["products"] = Append(@, product)])
        /\ Respond("add_product", 201, product)
        /\ UNCHANGED uuids

(* a slip: the last such record *)
LastWith(coll, key, value) ==
    LET S == {i \in 1..Len(coll) : coll[i][key] = value}
    IN  IF S = {} THEN 0 ELSE CHOOSE i \in S : \A j \in S : i >= j

(* the index of the first record of coll whose key has the value, or 0 *)
FirstWith(coll, key, value) ==
    LET S == {i \in 1..Len(coll) : coll[i][key] = value}
    IN  IF S = {} THEN 0 ELSE CHOOSE i \in S : \A j \in S : i <= j

update_product(product_id, updates) ==
    LET data == load_data
        i == FirstWith(data["products"], "id", product_id)
    IN  IF i # 0
        THEN LET product == DictUpdate(data["products"][i], updates)
             IN  /\ save_data([data EXCEPT !["products"][i] = product])
                 /\ Respond("update_product", 200, product)
                 /\ UNCHANGED uuids
        ELSE /\ Respond("update_product", 404, [error |-> "Product not found"])
             /\ Unchanged /\ UNCHANGED uuids

delete_product(product_id) ==
    LET data == load_data
    IN  /\ save_data([data EXCEPT !["products"] = SelectSeq(@, LAMBDA p : p["id"] # product_id)])
        /\ Respond("delete_product", 200, [message |-> "Product deleted"])
        /\ UNCHANGED uuids

----------------------------------------------------------------------------
(* Transactions API *)

get_transactions ==
    /\ Respond("get_transactions", 200, load_data["transactions"])
    /\ Unchanged /\ UNCHANGED uuids

(* datetime.now(): the model's requests all happen at one instant *)
NowStamp == "now"

(* One item of a sale: the first product of that name loses the item's     *)
(* quantity (1 when absent), floored at 0.  st is [products, ok]; ok turns *)
(* FALSE where Python raises TypeError (a stock or quantity that is no     *)
(* number), which ends the request.                                        *)
sell_item_nofloor(st, item) ==
    LET i == FirstWith(st.products, "name", item["name"])
        quantity == Get(item, "quantity", Num(2))
        stock == st.products[i]["stock"]
    IN  IF ~st.ok \/ i = 0 THEN st
        ELSE IF IsNum(stock) /\ IsNum(quantity)
        THEN [st EXCEPT !.products[i]["stock"] = Num(stock.v - quantity.v)]
        ELSE [st EXCEPT !.ok = FALSE]

sell_item(st, item) ==
    LET i == FirstWith(st.products, "name", item["name"])
        quantity == Get(item, "quantity", Num(2))
        stock == st.products[i]["stock"]
    IN  IF ~st.ok \/ i = 0 THEN st
        ELSE IF IsNum(stock) /\ IsNum(quantity)
        THEN [st EXCEPT !.products[i]["stock"] = Num(Max(0, stock.v - quantity.v))]
        ELSE [st EXCEPT !.ok = FALSE]

RECURSIVE sell_items(_, _)
sell_items(st, items) ==
    IF items = << >> THEN st ELSE sell_items(sell_item(st, Head(items)), Tail(items))

(* the payload with its defaults, its amount as float (0 when float        *)
(* raises), its identity and its date                                      *)
new_transaction(payload, transactions) ==
    LET d == SetDefault(SetDefault(SetDefault(SetDefault(SetDefault(payload,
                 "amount", Num(0)), "customer", ""), "supplier", ""), "description", ""),
                 "items", << >>)
        fa == Float(d["amount"])
    IN  Put(Put(Put(d, "amount", Num(IF fa.ok THEN fa.v ELSE 0)),
                "id", NextId(transactions)), "date", NowStamp)

(* the document after the handler's changes in memory, and whether it got  *)
(* that far: [data, transaction, ok]                                       *)
apply_transaction(data, payload) ==
    LET transaction == new_transaction(payload, data["transactions"])
        sold == IF transaction["type"] = "sale"
                THEN sell_items([products |-> data["products"], ok |-> TRUE], transaction["items"])
                ELSE [products |-> data["products"], ok |-> TRUE]
    IN  [data |-> [data EXCEPT !["products"] = sold.products,
                               !["transactions"] = Append(@, transaction)],
         transaction |-> transaction,
         ok |-> sold.ok]

add_transaction(payload) ==
    LET data == load_data
        r == apply_transaction(data, payload)
    IN  /\ IF r.ok
           THEN /\ save_data(r.data)
                /\ Respond("add_transaction", 201, r.transaction)
           ELSE /\ Respond("add_transaction", 500, [error |-> "TypeError"])
                /\ Unchanged
        /\ UNCHANGED uuids

----------------------------------------------------------------------------
(* Analytics API *)

RECURSIVE SumSeq(_)
SumSeq(s) == IF s = << >> THEN 0 ELSE Head(s) + SumSeq(Tail(s))

(* the sum of Val(x) over the elements x of s that satisfy Keep *)
SumOver(s, Keep(_), Val(_)) == SumSeq(SeqMap(Val, SelectSeq(s, Keep)))

(* strptime(date, '%Y-%m-%d %H:%M:%S') as a day relative to the request:   *)
(* the server's own stamp is day 0 and the seed's dates lie further back   *)
(* than any window asked for; any other text raises ValueError             *)
SeedDates == {"2024-01-15 10:30:00", "2024-01-16 14:20:00", "2024-01-17 09:15:00"}
ParsesAsDate(s) == s = NowStamp \/ s \in SeedDates
DayOf(s) == IF s = NowStamp THEN 0 ELSE -1000

(* a sale the series counts: its date parses and falls in the window, and  *)
(* adding its amount does not raise                                        *)
InWindow(t, days) ==
    /\ t["type"] = "sale"
    /\ Has(t, "date") /\ ParsesAsDate(t["date"]) /\ DayOf(t["date"]) >= -days
    /\ IsNum(Get(t, "amount", Num(0)))

get_sales_analytics(days) ==
    LET data == load_data
        OnDay(day) == SumOver(data["transactions"],
                              LAMBDA t : InWindow(t, days) /\ DayOf(t["date"]) = day,
                              LAMBDA t : Get(t, "amount", Num(0)).v)
        sales == [i \in 1..(days + 1) |-> OnDay(i - 1 - days)]
        total == SumOver(sales, LAMBDA x : TRUE, LAMBDA x : x)
    IN  /\ Respond("get_sales_analytics", 200,
                   [dates |-> [i \in 1..(days + 1) |-> i - 1 - days],
                    sales |-> sales,
                    total_sales |-> total])
        /\ Unchanged /\ UNCHANGED uuids

(* The balance report of a loaded document.  income and expenses are in    *)
(* halves, stock_value (price * stock) in quarters.  Adding an amount that *)
(* is no number raises, and the handler answers the all-zero report.       *)
Amounts(data, type) ==
    SelectSeq(data["transactions"], LAMBDA t : Get(t, "type", "") = type)

ZeroNull(x) == IF x = Null THEN Num(0) ELSE x

balance_report(data) ==
    LET sales == Amounts(data, "sale")
        purchases == Amounts(data, "purchase")
        Amount(t) == Get(t, "amount", Num(0))
        raises == \/ \E i \in 1..Len(sales) : ~IsNum(Amount(sales[i]))
                  \/ \E i \in 1..Len(purchases) : ~IsNum(Amount(purchases[i]))
                  \/ \E i \in 1..Len(data["products"]) :
                         \/ ~IsNum(ZeroNull(Get(data["products"][i], "price", Num(0))))
                         \/ ~IsNum(ZeroNull(Get(data["products"][i], "stock", Num(0))))
        income == SumOver(sales, LAMBDA t : TRUE, LAMBDA t : Amount(t).v)
        expenses == SumOver(purchases, LAMBDA t : TRUE, LAMBDA t : Amount(t).v)
        stock_value == SumOver(data["products"], LAMBDA p : TRUE,
                               LAMBDA p : ZeroNull(Get(p, "price", Num(0))).v
                                          * ZeroNull(Get(p, "stock", Num(0))).v)
    IN  IF raises
        THEN [income |-> 0, expenses |-> 0, stock_value |-> 0, gross_profit |-> 0,
              total_customers |-> 0, total_products |-> 0]
        ELSE [income |-> income, expenses |-> expenses, stock_value |-> stock_value,
              gross_profit |-> income - expenses,
              total_customers |-> Len(data["customers"]),
              total_products |-> Len(data["products"])]

get_balance ==
    /\ Respond("get_balance", 200, balance_report(load_data))
    /\ Unchanged /\ UNCHANGED uuids

----------------------------------------------------------------------------
(* Notes API *)

get_notes ==
    /\ Respond("get_notes", 200, load_data["notes"])
    /\ Unchanged /\ UNCHANGED uuids

add_note(payload) ==
    LET data == load_data
        note == SetDefault(SetDefault(Put(payload, "id", uuids + 1), "content", ""),
                           "category", "General")
    IN  IF Get(payload, "title", "") = ""
        THEN /\ Respond("add_note", 400, [error |-> "Note title is required"])
             /\ Unchanged /\ UNCHANGED uuids
        ELSE /\ uuids' = uuids + 1
             /\ save_data([data EXCEPT !["notes"] = Append(@, note)])
             /\ Respond("add_note", 201, note)

update_note(note_id, updates) ==
    LET data == load_data
        i == FirstWith(data["notes"], "id", note_id)
    IN  IF i # 0
        THEN LET note == DictUpdate(data["notes"][i], updates)
             IN  /\ save_data([data EXCEPT !["notes"][i] = note])
                 /\ Respond("update_note", 200, note)
                 /\ UNCHANGED uuids
        ELSE /\ Respond("update_note", 404, [error |-> "Note not found"])
             /\ Unchanged /\ UNCHANGED uuids

delete_note(note_id) ==
    LET data == load_data
    IN  /\ save_data([data EXCEPT !["notes"] = SelectSeq(@, LAMBDA n : n["id"] # note_id)])
        /\ Respond("delete_note", 200, [message |-> "Note deleted"])
        /\ UNCHANGED uuids

----------------------------------------------------------------------------
(* Export and backup API *)

ProductRow(p) ==
    [id |-> Get(p, "id", ""), name |-> Get(p, "name", ""), price |-> Get(p, "price", Num(0)),
     stock |-> Get(p, "stock", Num(0)), cost |-> Get(p, "cost", Num(0))]

TransactionRow(t) ==
    [id |-> Get(t, "id", ""), date |-> Get(t, "date", ""), type |-> Get(t, "type", ""),
     amount |-> Get(t, "amount", Num(0)), customer |-> Get(t, "customer", ""),
     supplier |-> Get(t, "supplier", ""), description |-> Get(t, "description", "")]

export_csv(export_type) ==
    LET data == load_data
    IN  /\ CASE export_type = "products" ->
                  Respond("export_csv", 200, SeqMap(ProductRow, data["products"]))
             [] export_type = "transactions" ->
                  Respond("export_csv", 200, SeqMap(TransactionRow, data["transactions"]))
             [] OTHER ->
                  Respond("export_csv", 400, [error |-> "Invalid export type"])
        /\ Unchanged /\ UNCHANGED uuids

backup_data ==
    /\ Respond("backup_data", 200, validate_data(load_data))
    /\ Unchanged /\ UNCHANGED uuids

(* a slip: the keys the upload lacks taken from the current document *)
restore_data_merge(upload) ==
    /\ UNCHANGED uuids
    /\ IF \/ ~upload.attached \/ upload.filename = "" \/ upload.filename \notin {"backup.json", ".json"}
          \/ upload.content.kind # "object"
       THEN Respond("restore_data", 400, [error |-> "rejected"]) /\ Unchanged
       ELSE /\ save_data(validate_data(upload.content.doc @@ load_data))
            /\ Respond("restore_data", 200, [message |-> "Data restored successfully"])

(* An upload is [attached, filename, content]; its content is text that is *)
(* no JSON ("garbage"), a JSON value that is no object ("array"), on which *)
(* validate_data raises TypeError, or a JSON object, the document doc.     *)
EndsWithJson(filename) == filename \in {"backup.json", ".json"}

restore_data(upload) ==
    /\ UNCHANGED uuids
    /\ IF ~upload.attached
       THEN Respond("restore_data", 400, [error |-> "No file provided"]) /\ Unchanged
       ELSE IF upload.filename = ""
       THEN Respond("restore_data", 400, [error |-> "No file selected"]) /\ Unchanged
       ELSE IF ~EndsWithJson(upload.filename)
       THEN Respond("restore_data", 400, [error |-> "Invalid file format"]) /\ Unchanged
       ELSE IF upload.content.kind = "garbage"
       THEN Respond("restore_data", 400, [error |-> "Invalid JSON file"]) /\ Unchanged
       ELSE IF upload.content.kind # "object"
       THEN Respond("restore_data", 400, [error |-> "Error restoring data"]) /\ Unchanged
       ELSE /\ save_data(validate_data(upload.content.doc))
            /\ Respond("restore_data", 200, [message |-> "Data restored successfully"])

----------------------------------------------------------------------------
(* The requests the model sends *)

ProductPayloads ==
    { [name |-> "Widget", price |-> Str("12.5"), stock |-> Str("12.5")],
      [name |-> Drum250Open, price |-> Num(5800), stock |-> Num(6), cost |-> Num(4000)],
      [name |-> "Widget", price |-> Num(20), stock |-> Str("abc"), cost |-> Null] }

ProductUpdates ==
    { [stock |-> Num(8)], [id |-> 2], [price |-> Str("9"), stock |-> Num(-4)] }

IdInputs == {1, 2, 7}

TransactionPayloads ==
    { [type |-> "sale", amount |-> Num(34800), customer |-> "John Doe",
       items |-> << [name |-> Drum250Open, quantity |-> Num(6), price |-> Num(5800)] >>],
      [type |-> "sale", amount |-> Str("12.5"),
       items |-> << [name |-> "Widget"], [name |-> Drum250Open, quantity |-> Num(16)] >>],
      [type |-> "sale", amount |-> Num(10),
       items |-> << [name |-> "Gadget", quantity |-> Num(2)] >>],
      [type |-> "purchase", amount |-> Num(8400), supplier |-> "Plastic Works Ltd",
       items |-> << [name |-> Drum250Open, quantity |-> Num(6)] >>],
      [type |-> "purchase", amount |-> Str("abc")] }

NotePayloads == { [title |-> "Call supplier"], [content |-> "no title"] }
NoteUpdates == { [content |-> "done"] }
NoteIdInputs == {1, 2}

DaysInputs == {0, 5}
ExportTypes == {"products", "transactions", "customers"}

EmptyDocument ==
    [products |-> << >>, transactions |-> << >>, customers |-> << >>, suppliers |-> << >>,
     notes |-> << >>, settings |-> [tax_rate |-> Num(0)]]

UploadedDocuments ==
    { EmptyDocument,
      [products |-> << [id |-> 1, name |-> "Widget", price |-> Str("12.5"), stock |-> Str("12.5")] >>],
      [products |-> << [id |-> 1, name |-> "Widget", price |-> Num(-10), stock |-> Null,
                        cost |-> Str("abc")] >>,
       transactions |-> << [id |-> 1, type |-> "sale", amount |-> Null] >>,
       customers |-> << >>, suppliers |-> << >>, notes |-> << >>] }

Uploads ==
    { [attached |-> FALSE, filename |-> "", content |-> [kind |-> "garbage"]],
      [attached |-> TRUE, filename |-> "", content |-> [kind |-> "garbage"]],
      [attached |-> TRUE, filename |-> "backup.txt", content |-> [kind |-> "object", doc |-> EmptyDocument]],
      [attached |-> TRUE, filename |-> "backup.json", content |-> [kind |-> "garbage"]],
      [attached |-> TRUE, filename |-> "backup.json", content |-> [kind |-> "array"]] }
    \cup { [attached |-> TRUE, filename |-> "backup.json", content |-> [kind |-> "object", doc |-> d]] :
             d \in UploadedDocuments }

----------------------------------------------------------------------------
(* The system, its requests handled one at a time *)

NoFile == [absent |-> TRUE]
NoResponse == [op |-> "none", status |-> 0, body |-> [message |-> ""]]
Idle == [absent |-> TRUE]

Init ==
    /\ fileExists = FALSE /\ fileData = NoFile
    /\ resp = NoResponse
    /\ handled = 0
    /\ uuids = 0
    /\ created = [products |-> << >>, transactions |-> << >>]
    /\ maxDeleted = FALSE
    /\ pc = "sequential" /\ local = Idle /\ txn = Idle /\ raced = FALSE
    /\ raw = Idle /\ normalized = Idle

(* one more request of a run, handled by the action A *)
Handle(A) ==
    /\ handled < MaxRequests
    /\ handled' = handled + 1
    /\ A
    /\ UNCHANGED <<created, maxDeleted, pc, local, txn, raced, raw, normalized>>

Next ==
    \/ Handle(get_products)
    \/ \E p \in ProductPayloads : Handle(add_product(p))
    \/ \E id \in IdInputs, u \in ProductUpdates : Handle(update_product(id, u))
    \/ \E id \in IdInputs : Handle(delete_product(id))
    \/ Handle(get_transactions)
    \/ \E t \in TransactionPayloads : Handle(add_transaction(t))
    \/ \E days \in DaysInputs : Handle(get_sales_analytics(days))
    \/ Handle(get_balance)
    \/ Handle(get_notes)
    \/ \E n \in NotePayloads : Handle(add_note(n))
    \/ \E id \in NoteIdInputs, u \in NoteUpdates : Handle(update_note(id, u))
    \/ \E id \in NoteIdInputs : Handle(delete_note(id))
    \/ \E e \in ExportTypes : Handle(export_csv(e))
    \/ Handle(backup_data)
    \/ \E u \in Uploads : Handle(restore_data(u))

Spec == Init /\ [][Next]_vars

----------------------------------------------------------------------------
(* Creations and deletions from empty collections: the file holds the      *)
(* empty document (a restore of it leaves that), products and transactions *)
(* are created and products deleted, and the history records what each     *)
(* creation returned.                                                      *)

CreationProducts == { [name |-> "Widget", price |-> Str("12.5"), stock |-> Str("12.5")] }
CreationTransactions ==
    { [type |-> "sale", amount |-> Num(10), items |-> << [name |-> "Widget"] >>],
      [type |-> "purchase", amount |-> Str("abc")] }

InitIds ==
    /\ fileExists = TRUE /\ fileData = validate_data(EmptyDocument)
    /\ resp = NoResponse
    /\ handled = 0
    /\ uuids = 0
    /\ created = [products |-> << >>, transactions |-> << >>]
    /\ maxDeleted = FALSE
    /\ pc = "sequential" /\ local = Idle /\ txn = Idle /\ raced = FALSE
    /\ raw = Idle /\ normalized = Idle

IdsFrame == UNCHANGED <<handled, pc, local, txn, raced, raw, normalized>>

CreateProduct(p) ==
    /\ Len(created.products) < MaxCreated
    /\ add_product(p)
    /\ created' = [created EXCEPT !.products = Append(@, resp'.body)]
    /\ UNCHANGED maxDeleted /\ IdsFrame

CreateTransaction(t) ==
    /\ Len(created.transactions) < MaxCreated
    /\ add_transaction(t)
    /\ created' = [created EXCEPT !.transactions = Append(@, resp'.body)]
    /\ UNCHANGED maxDeleted /\ IdsFrame

DeleteProduct(id) ==
    /\ delete_product(id)
    /\ maxDeleted' = (maxDeleted \/ id + 1 = NextId(load_data["products"]))
    /\ UNCHANGED created /\ IdsFrame

NextIds ==
    \/ \E p \in CreationProducts : CreateProduct(p)
    \/ \E t \in CreationTransactions : CreateTransaction(t)
    \/ \E id \in 1..MaxCreated : DeleteProduct(id)

SpecIds == InitIds /\ [][NextIds]_vars

(* C2: creating N products or N transactions in sequence from empty        *)
(* collections assigns the identities 1..N in order, also with deletions   *)
(* of non-maximal product identities in between.                           *)
C2_IdentityAssignment ==
    /\ \A i \in 1..Len(created.transactions) : created.transactions[i]["id"] = i
    /\ ~maxDeleted => \A i \in 1..Len(created.products) : created.products[i]["id"] = i

(* three products created, the last one after a deletion of a product that *)
(* was not the newest, and two transactions                                *)
C2_Witness ==
    /\ ~maxDeleted
    /\ Len(created.products) = 3
    /\ Len(created.transactions) >= 2
    /\ resp.op = "add_product"
    /\ Len(fileData["products"]) < 3

----------------------------------------------------------------------------
(* Two writers handling add_transaction requests at the same time.  A      *)
(* handler reads the file once (load_data), works on its own copy, and     *)
(* writes the file once (save_data); the two steps of one handler can have *)
(* the other handler's steps between them.                                 *)

Writers == {1, 2}

InitConc ==
    /\ fileExists = FALSE /\ fileData = NoFile
    /\ resp = NoResponse
    /\ handled = 0
    /\ uuids = 0
    /\ created = [products |-> << >>, transactions |-> << >>]
    /\ maxDeleted = FALSE
    /\ pc = [w \in Writers |-> "idle"]
    /\ local = [w \in Writers |-> Idle]
    /\ txn = [w \in Writers |-> Idle]
    /\ raced = FALSE
    /\ raw = Idle /\ normalized = Idle

(* lines 201-226: load the document and apply the transaction in memory.   *)
(* A TypeError ends the request with status 500 and nothing written.       *)
LoadAndApply(w, payload) ==
    LET r == apply_transaction(load_data, payload)
    IN  /\ pc[w] = "idle"
        /\ handled < MaxWriterRequests * Cardinality(Writers)
        /\ handled' = handled + 1
        /\ IF r.ok
           THEN /\ pc' = [pc EXCEPT ![w] = "loaded"]
                /\ local' = [local EXCEPT ![w] = r.data]
                /\ txn' = [txn EXCEPT ![w] = r.transaction]
                /\ raced' = (raced \/ \E v \in Writers \ {w} : pc[v] = "loaded")
                /\ UNCHANGED resp
           ELSE /\ Respond("add_transaction", 500, [error |-> "TypeError"])
                /\ UNCHANGED <<pc, local, txn, raced>>
        /\ UNCHANGED <<fileExists, fileData, uuids, created, maxDeleted, raw, normalized>>

(* lines 228-230: append, save and answer *)
SaveAndRespond(w) ==
    /\ pc[w] = "loaded"
    /\ save_data(local[w])
    /\ Respond("add_transaction", 201, txn[w])
    /\ created' = [created EXCEPT !.transactions = Append(@, txn[w])]
    /\ pc' = [pc EXCEPT ![w] = "idle"]
    /\ local' = [local EXCEPT ![w] = Idle]
    /\ txn' = [txn EXCEPT ![w] = Idle]
    /\ UNCHANGED <<handled, uuids, maxDeleted, raced, raw, normalized>>

NextConc ==
    \/ \E w \in Writers, t \in TransactionPayloads : LoadAndApply(w, t)
    \/ \E w \in Writers : SaveAndRespond(w)

SpecConc == InitConc /\ [][NextConc]_vars

(* the document a request would find: the file's, or the seed *)
Persisted == IF fileExists THEN fileData ELSE get_default_data

SeedLen == Len(get_default_data["transactions"])

RECURSIVE Replay(_, _)
(* the products after the sales among the transactions ts, one after the other *)
Replay(products, ts) ==
    IF ts = << >> THEN products
    ELSE Replay(IF Head(ts)["type"] = "sale"
                THEN sell_items([products |-> products, ok |-> TRUE], Head(ts)["items"]).products
                ELSE products,
                Tail(ts))

(* every acknowledged transaction is in the document, in the order of the  *)
(* acknowledgements and each with an identity of its own, and the stocks   *)
(* are the seed's less every acknowledged sale                             *)
NothingLost ==
    LET acked == created.transactions
        ts == Persisted["transactions"]
    IN  /\ Len(ts) = SeedLen + Len(acked)
        /\ \A i \in 1..Len(acked) : ts[SeedLen + i] = acked[i]
        /\ \A i, j \in 1..Len(ts) : i # j => ts[i]["id"] # ts[j]["id"]
        /\ Persisted["products"] = Replay(get_default_data["products"], acked)

(* C9, requests one at a time: as long as no writer loaded while another   *)
(* held a loaded document, no acknowledged transaction and no stock        *)
(* decrement is lost.                                                      *)
C9_SequentialLosesNothing == ~raced => NothingLost

(* C9, the race: both writers loaded before either saved; both sales were  *)
(* acknowledged under the same identity, and the document holds only the   *)
(* second writer's transaction and stock decrement.                        *)
C9_LostUpdate ==
    LET acked == created.transactions
        ts == Persisted["transactions"]
    IN  /\ raced
        /\ Len(acked) = 2
        /\ acked[1]["type"] = "sale" /\ acked[2]["type"] = "sale"
        /\ acked[1]["items"] # acked[2]["items"]
        /\ acked[1]["id"] = acked[2]["id"]
        /\ Len(ts) = SeedLen + 1
        /\ ts[SeedLen + 1] = acked[2]
        /\ Persisted["products"] = Replay(get_default_data["products"], << acked[2] >>)
        /\ Persisted["products"] # Replay(get_default_data["products"], acked)

----------------------------------------------------------------------------
(* validate_data on its own, applied to raw documents of one product whose *)
(* price, stock and cost are each absent, a number, a negative number, a   *)
(* numeric text, a text that is no number, or null.                        *)

RawValues == { Num(25), Num(-10), Str("12.5"), Str("-5"), Str("abc"), Null }

WithField(S, k) == S \cup { Put(d, k, v) : d \in S, v \in RawValues }

RawProducts == WithField(WithField(WithField({ [id |-> 1, name |-> "Widget"] }, "price"), "stock"), "cost")

InitNorm ==
    /\ fileExists = FALSE /\ fileData = NoFile
    /\ resp = NoResponse
    /\ handled = 0
    /\ uuids = 0
    /\ created = [products |-> << >>, transactions |-> << >>]
    /\ maxDeleted = FALSE
    /\ pc = "raw" /\ local = Idle /\ txn = Idle /\ raced = FALSE
    /\ raw \in { [products |-> << p >>] : p \in RawProducts }
    /\ normalized = Idle

Validate ==
    /\ pc = "raw"
    /\ normalized' = validate_data(raw)
    /\ pc' = "validated"
    /\ UNCHANGED <<fileExists, fileData, resp, handled, uuids, created, maxDeleted, local,
                   txn, raced, raw>>

NextNorm == Validate

SpecNorm == InitNorm /\ [][NextNorm]_vars

(* C7: after validate_data the price, stock and cost of every product are  *)
(* numbers, and price and stock are not negative, whatever the raw input.  *)
C7_NormalizedNumeric ==
    pc = "validated" =>
        \A i \in 1..Len(normalized["products"]) :
            LET P == normalized["products"][i]
            IN  /\ IsNum(P["price"]) /\ IsNum(P["stock"]) /\ IsNum(P["cost"])
                /\ P["price"].v >= 0 /\ P["stock"].v >= 0

----------------------------------------------------------------------------
(* Properties of the whole system, its requests handled one at a time *)

NumericStocks(products) ==
    \A i \in 1..Len(products) : IsNum(products[i]["stock"])

NonNegativeStocks(products) ==
    \A i \in 1..Len(products) : IsNum(products[i]["stock"]) /\ products[i]["stock"].v >= 0

(* whether products[i] is the first product of that name *)
FirstOfName(products, i, name) ==
    /\ products[i]["name"] = name
    /\ \A j \in 1..(i - 1) : products[j]["name"] # name

(* the quantities, in order, of the items that name products[i] and find   *)
(* it first                                                                *)
QuantitiesFor(products, i, items) ==
    SeqMap(LAMBDA it : Get(it, "quantity", Num(2)).v,
           SelectSeq(items, LAMBDA it : FirstOfName(products, i, it["name"])))

RECURSIVE Floored(_, _)
Floored(stock, quantities) ==
    IF quantities = << >> THEN stock
    ELSE Floored(Max(0, stock - Head(quantities)), Tail(quantities))

(* C1: a sale takes each item's quantity (1 when absent) from the stock of *)
(* the product the item names, floored at 0; from non-negative stocks no   *)
(* sale leaves a negative stock.                                           *)
C1_StockDepletion ==
    [][resp'.op = "add_transaction" =>
        \A t \in TransactionPayloads :
            (/\ Handle(add_transaction(t))
             /\ t["type"] = "sale"
             /\ NumericStocks(load_data["products"]))
            => LET before == load_data["products"]
                   after == fileData'["products"]
               IN  /\ resp'.status = 201
                   /\ Len(after) = Len(before)
                   /\ \A i \in 1..Len(before) :
                          after[i]["stock"] =
                              Num(Floored(before[i]["stock"].v, QuantitiesFor(before, i, t["items"])))
                   /\ NonNegativeStocks(before) => NonNegativeStocks(after)]_vars

(* a sale of 3 took the stock of the first product from 10 to 7, and a     *)
(* sale of 8 then took it to 0, not below                                  *)
C1_Witness ==
    /\ resp.op = "add_transaction" /\ resp.status = 201
    /\ fileExists
    /\ Len(fileData["transactions"]) = SeedLen + 2
    /\ fileData["transactions"][SeedLen + 1]["items"]
           = << [name |-> Drum250Open, quantity |-> Num(6), price |-> Num(5800)] >>
    /\ fileData["transactions"][SeedLen + 2]["items"]
           = << [name |-> "Widget"], [name |-> Drum250Open, quantity |-> Num(16)] >>
    /\ fileData["products"][1]["stock"] = Num(0)

(* whether new holds, at the same places, every record of old with every   *)
(* field old gave it                                                       *)
KeepsFields(old, new) ==
    /\ Len(old) <= Len(new)
    /\ \A i \in 1..Len(old) :
          \A k \in DOMAIN old[i] : k \in DOMAIN new[i] /\ new[i][k] = old[i][k]

C3_UniqueProductIds ==
    \A i, j \in 1..Len(Persisted["products"]) :
        i # j => Persisted["products"][i]["id"] # Persisted["products"][j]["id"]

(* whether old is a prefix of new *)
IsPrefix(old, new) ==
    /\ Len(old) <= Len(new)
    /\ \A i \in 1..Len(old) : new[i] = old[i]

(* C4, as claimed: over every operation, restore included, the transaction *)
(* list before is a prefix of the list after.                              *)
C4_AppendOnly ==
    [][IsPrefix(Persisted["transactions"], Persisted'["transactions"])]_vars

(* C4, amended: over every operation but a successful restore, every       *)
(* transaction stays at its place with every field it had.                 *)
C4_AppendOnlyButRestore ==
    [][~(resp'.op = "restore_data" /\ resp'.status = 200)
        => KeepsFields(Persisted["transactions"], Persisted'["transactions"])]_vars

(* the file was written, then read and written again with a transaction    *)
(* more: the seed's purchase has its defaulted fields, and its own as      *)
(* before                                                                  *)
C4_Witness ==
    /\ fileExists
    /\ resp.op = "add_transaction" /\ resp.status = 201
    /\ Len(fileData["transactions"]) = SeedLen + 2
    /\ Has(fileData["transactions"][2], "items")
    /\ fileData["transactions"][2]["amount"] = Num(8400)

(* C5: an update or a delete of a product or a note whose identity the     *)
(* document does not hold is answered 404, and products and notes stay as  *)
(* they were.                                                              *)
C5_MissingIsNotFound ==
    [][resp'.op \in {"update_product", "delete_product", "update_note", "delete_note"} =>
        LET Missing(coll, id) == id \notin Ids(load_data[coll])
            NotFound == /\ resp'.status = 404
                        /\ load_data'["products"] = load_data["products"]
                        /\ load_data'["notes"] = load_data["notes"]
        IN  /\ \A id \in IdInputs, u \in ProductUpdates :
                  Handle(update_product(id, u)) /\ Missing("products", id) => NotFound
            /\ \A id \in IdInputs :
                  Handle(delete_product(id)) /\ Missing("products", id) => NotFound
            /\ \A id \in NoteIdInputs, u \in NoteUpdates :
                  Handle(update_note(id, u)) /\ Missing("notes", id) => NotFound
            /\ \A id \in NoteIdInputs :
                  Handle(delete_note(id)) /\ Missing("notes", id) => NotFound]_vars

Rejected(upload) ==
    \/ ~upload.attached
    \/ upload.filename = ""
    \/ upload.filename \notin {"backup.json", ".json"}
    \/ upload.content.kind \in {"garbage", "array"}

(* C6: a restore that is rejected leaves the file as it was; one that      *)
(* succeeds leaves in the file the uploaded document normalized, with      *)
(* nothing of the document that was there.                                 *)
C6_Restore ==
    [][resp'.op = "restore_data" =>
        \A u \in Uploads :
            Handle(restore_data(u))
            => IF Rejected(u)
               THEN /\ resp'.status = 400
                    /\ fileExists' = fileExists /\ fileData' = fileData
               ELSE /\ resp'.status = 200
                    /\ fileExists'
                    /\ fileData' = validate_data(u.content.doc)]_vars

(* a note was added to the seed document, then a document of one product   *)
(* and nothing else was restored: the file holds that product and, for the *)
(* keys the upload lacked, the seed's values, so no note                   *)
C6_Witness ==
    /\ resp.op = "restore_data" /\ resp.status = 200
    /\ handled = 2 /\ uuids = 1
    /\ Len(fileData["products"]) = 1
    /\ fileData["products"][1]["price"] = Num(25)
    /\ fileData["products"][1]["stock"] = Num(24)
    /\ fileData["notes"] = << >>
    /\ Len(fileData["transactions"]) = SeedLen

(* C8: a purchase of amount X adds X to the expenses of the balance report *)
(* and leaves its income; a sale of amount Y adds Y to its income and to   *)
(* its gross profit; gross profit is income less expenses.                 *)
C8_BalanceMonotone ==
    [][resp'.op = "add_transaction" /\ resp'.status = 201 =>
        LET b == balance_report(load_data)
            a == balance_report(load_data')
            X == resp'.body["amount"].v
        IN  /\ a.gross_profit = a.income - a.expenses
            /\ resp'.body["type"] = "purchase"
                  => a.expenses = b.expenses + X /\ a.income = b.income
            /\ resp'.body["type"] = "sale"
                  => a.income = b.income + X /\ a.gross_profit = b.gross_profit + X]_vars

====
